---- MODULE Spec2Model ----
(***************************************************************************)
(* Model of tianyi-auto (src/src/main.rs): the scheduler loop              *)
(* (run_scheduler), one login-then-reboot cycle (run_once, login, reboot)  *)
(* and the environment it talks to (wall clock, router HTTP responses).    *)
(*                                                                         *)
(* Time is an integer number of clock units.  MaxTime stands for "at or    *)
(* beyond the horizon": every trigger instant of the schedule lies         *)
(* strictly below it, so the clock saturates there.                        *)
(***************************************************************************)
EXTENDS Integers, Sequences, FiniteSets, TLC

\* ---------------------------------------------------------------- bounds
MaxTime  == 3      \* horizon of the wall clock
MaxJumps == 1      \* wall-clock adjustments (NTP, DST, suspend) per run
PreEpoch == 1      \* how far before the epoch a clock adjustment may land
MaxInstant == 7    \* largest instant handed to the duration computation

\* ------------------------------------------------------------ vocabulary
None == 0 - 1000                      \* Option::None of schedule.after().next()

Statuses == {200, 302, 403}           \* HTTP statuses the router may answer

TransportErr == [transport |-> "err",  status |-> 0, cookie |-> FALSE]
NoResp       == [transport |-> "none", status |-> 0, cookie |-> FALSE]
Responses    == [transport : {"ok"}, status : Statuses, cookie : BOOLEAN]
                  \cup {TransportErr}

ClockValues == (0 - PreEpoch)..MaxTime
Schedules   == SUBSET (1..(MaxTime - 1))

FailureKinds == {"login_transport", "login_status",
                 "reboot_transport", "reboot_status"}

VARIABLES
    cfg,          \* Config: URLs, credentials, tokens, add_timestamp
    cronValid,    \* does Schedule::from_str(cron_expr) succeed
    schedule,     \* trigger instants of the parsed cron expression
    run_now,      \* --run-now
    pc,           \* position of the single thread in run_scheduler/run_once
    caller,       \* call site of the running run_once: immediate / scheduled
    clock,        \* wall clock (Local::now, SystemTime::now)
    jumps,        \* clock adjustments so far
    backwards,    \* has the wall clock ever moved backwards
    now, next,    \* locals of the loop body, live until the sleep is over
    wait,         \* Duration handed to thread::sleep
    sleepLeft,    \* monotonic time left in thread::sleep
    iter,         \* loop iterations started (trigger computations)
    cycle,        \* cycles (run_once calls) started
    cycReqs,      \* requests sent by the cycle that is running or has just
                  \* returned, in order; empty once the loop moves on
    loginResp,    \* answer to that cycle's login request
    rebootResp,   \* answer to that cycle's reboot request
    lastTrigger,  \* the trigger instant computed by the previous iteration
    inflight,     \* HTTP requests sent and not yet answered
    outcome,      \* result of the last finished run_once, until the next
                  \* one is called
    exitReason,   \* why run_scheduler returned
    totalLogins, okLogins, totalReboots   \* counts over the whole run

vars == <<cfg, cronValid, schedule, run_now, pc, caller, clock, jumps,
          backwards, now, next, wait, sleepLeft, iter, cycle, cycReqs,
          loginResp, rebootResp, lastTrigger, inflight, outcome, exitReason,
          totalLogins, okLogins, totalReboots>>

envVars   == <<clock, jumps, backwards, sleepLeft>>
constVars == <<cfg, cronValid, schedule, run_now>>
loopVars  == <<now, next, wait, iter, lastTrigger>>
countVars == <<totalLogins, okLogins, totalReboots>>

\* --------------------------------------------------------- pure functions

\* StatusCode::is_success: 200..=299
is_success(status) == status >= 200 /\ status <= 299

\* (variant: an inclusive search, which returns now when now is a trigger)
after_inclusive(sched, t) ==
    IF \E s \in sched : s >= t
    THEN CHOOSE s \in sched : s >= t /\ \A u \in sched : u >= t => s <= u
    ELSE None

\* schedule.after(&now).next(): first trigger instant strictly after now
after(sched, t) ==
    IF \E s \in sched : s > t
    THEN CHOOSE s \in sched : s > t /\ \A u \in sched : u > t => s <= u
    ELSE None

\* (variant: the delta handed on as it is, without the floor)
to_std_unclamped(delta) == delta

\* to_std: TimeDelta::to_std fails on a negative delta; floor to zero
to_std(delta) == IF delta >= 0 THEN delta ELSE 0

\* (variant: the signed distance from the epoch, without the default)
epoch_millis_signed(t) == t

\* the millisecond timestamp of reboot(): duration_since(UNIX_EPOCH)
\* .unwrap_or_default()
epoch_millis(t) == IF t >= 0 THEN t ELSE 0

\* the URL reboot() posts to: a clone of cfg.reboot_url, plus timeStamp
reboot_request_url(c, t) ==
    IF c.add_timestamp
    THEN [c.reboot_url EXCEPT !.query = Append(@, <<"timeStamp", epoch_millis(t)>>)]
    ELSE c.reboot_url

\* Result<()> values: Ok(()) or the error, which carries the status it names
Ok == [tag |-> "ok", status |-> 0]
Err(tag, status) == [tag |-> tag, status |-> status]
NoOutcome == [tag |-> "none", status |-> 0]

\* (variant: the status check of login() left out)
login_result_ignoresStatus(resp) ==
    IF resp.transport = "err" THEN Err("login_transport", 0) ELSE Ok

\* (variant: a missing cookie treated as a login failure)
login_result_requiresCookie(resp) ==
    IF resp.transport = "err" THEN Err("login_transport", 0)
    ELSE IF ~is_success(resp.status) THEN Err("login_status", resp.status)
    ELSE IF ~resp.cookie THEN Err("login_status", resp.status)
    ELSE Ok

\* result of login() given the answer to its request
login_result(resp) ==
    IF resp.transport = "err" THEN Err("login_transport", 0)
    ELSE IF ~is_success(resp.status) THEN Err("login_status", resp.status)
    ELSE Ok

\* (variant: the status check of reboot() left out)
reboot_result_ignoresStatus(resp) ==
    IF resp.transport = "err" THEN Err("reboot_transport", 0) ELSE Ok

\* result of reboot() given the answer to its request
reboot_result(resp) ==
    IF resp.transport = "err" THEN Err("reboot_transport", 0)
    ELSE IF ~is_success(resp.status) THEN Err("reboot_status", resp.status)
    ELSE Ok

\* (variant: run_once(..)? -- the error propagated out of run_scheduler)
after_run_once_propagates(res) == IF res = Ok THEN "loop_top" ELSE "exit_err"

\* (variant: run_scheduler returning Ok(()) after a successful cycle)
after_run_once_returnsOnSuccess(res) ==
    IF res = Ok THEN "exit_ok" ELSE "loop_top"

\* (variant: a failed cycle retried at once)
after_run_once_retries(res) == IF res = Ok THEN "loop_top" ELSE "login_send"

\* if let Err(e) = run_once(..) { error!(..) } -- both call sites fall
\* through to the top of the loop whatever the result
after_run_once(res) == "loop_top"

\* (variant: the result of login() dropped, reboot sent regardless)
after_login_ignoresError(res) == "reboot_send"

\* run_once: login(client, cfg)?; -- where the thread goes after login()
after_login(res) == IF res = Ok THEN "reboot_send" ELSE after_run_once(res)

\* ------------------------------------------------------------------ Init
Url(path) == [path |-> path, query |-> <<>>]

\* the Config main() builds from the arguments
Configs ==
    [login_url : {Url("login")}, reboot_url : {Url("reboot")},
     reboot_referer : {Url("referer")}, username : {"useradmin"},
     password : {"secret"}, login_token : {"5"}, frashnum : {""},
     add_timestamp : BOOLEAN]

\* the form login() builds from the Config
login_form(c) ==
    [frashnum |-> c.frashnum, action |-> "login",
     Frm_Logintoken |-> c.login_token, user_name |-> c.username,
     Password |-> c.password]

Init ==
    /\ cfg \in Configs
    /\ cronValid \in BOOLEAN
    /\ schedule \in Schedules
    /\ run_now \in BOOLEAN
    /\ pc = "parse"
    /\ caller = "none"
    /\ clock = 0
    /\ jumps = 0
    /\ backwards = FALSE
    /\ now = 0 /\ next = None /\ wait = 0 /\ sleepLeft = 0
    /\ iter = 0 /\ cycle = 0
    /\ cycReqs = <<>>
    /\ loginResp = NoResp
    /\ rebootResp = NoResp
    /\ lastTrigger = None
    /\ inflight = {}
    /\ outcome = NoOutcome
    /\ exitReason = "none"
    /\ totalLogins = 0 /\ okLogins = 0 /\ totalReboots = 0

\* --------------------------------------------------------------- program

\* (variant: run_once without its login step)
StartCycle_skipsLogin(site) ==
    /\ pc' = "reboot_send"
    /\ caller' = site
    /\ cycle' = cycle + 1
    /\ cycReqs' = <<>>
    /\ loginResp' = NoResp
    /\ rebootResp' = NoResp
    /\ outcome' = NoOutcome

\* a call of run_once from one of its two call sites
StartCycle(site) ==
    /\ pc' = "login_send"
    /\ caller' = site
    /\ cycle' = cycle + 1
    /\ cycReqs' = <<>>
    /\ loginResp' = NoResp
    /\ rebootResp' = NoResp
    /\ outcome' = NoOutcome

\* (variant: the parse error not returned; the function goes on)
ParseCron_ignoresError ==
    /\ pc = "parse"
    /\ pc' = "run_now_check"
    /\ exitReason' = exitReason
    /\ UNCHANGED <<constVars, envVars, loopVars, countVars, caller, cycle,
                   cycReqs, loginResp, rebootResp, inflight, outcome>>

\* Schedule::from_str(cron_expr).context("invalid cron expression")?
ParseCron ==
    /\ pc = "parse"
    /\ IF cronValid
       THEN pc' = "run_now_check" /\ exitReason' = exitReason
       ELSE pc' = "exit_err" /\ exitReason' = "invalid_cron"
    /\ UNCHANGED <<constVars, envVars, loopVars, countVars, caller, cycle,
                   cycReqs, loginResp, rebootResp, inflight, outcome>>

\* (variant: the immediate run made whatever the flag says)
RunNowCheck_unconditional ==
    /\ pc = "run_now_check"
    /\ StartCycle("immediate")
    /\ UNCHANGED <<constVars, envVars, loopVars, countVars, inflight,
                   exitReason>>

\* if run_now { run_once(..) }
RunNowCheck ==
    /\ pc = "run_now_check"
    /\ IF run_now
       THEN StartCycle("immediate")
       ELSE /\ pc' = "loop_top"
            /\ UNCHANGED <<caller, cycle, cycReqs, loginResp, rebootResp,
                           outcome>>
    /\ UNCHANGED <<constVars, envVars, loopVars, countVars, inflight,
                   exitReason>>

\* now, next and wait are not read again once thread::sleep has returned:
\* they are forgotten when the cycle sends its first request
ForgetLoopLocals ==
    /\ now' = 0 /\ next' = None /\ wait' = 0
    /\ iter' = iter /\ lastTrigger' = lastTrigger

\* (variant: the login request sent without waiting for its answer)
LoginSend_noAwait ==
    /\ pc = "login_send"
    /\ cycReqs' = Append(cycReqs, [kind |-> "login", url |-> cfg.login_url,
                                   referer |-> cfg.login_url,
                                   form |-> login_form(cfg)])
    /\ inflight' = inflight \cup {[cycle |-> cycle, kind |-> "login"]}
    /\ totalLogins' = totalLogins + 1
    /\ pc' = "reboot_send"
    /\ ForgetLoopLocals
    /\ UNCHANGED <<constVars, envVars, caller, cycle, loginResp, rebootResp,
                   outcome, exitReason, okLogins, totalReboots>>

\* login(): build the form and send the POST to cfg.login_url
LoginSend ==
    /\ pc = "login_send"
    /\ cycReqs' = Append(cycReqs, [kind |-> "login", url |-> cfg.login_url,
                                   referer |-> cfg.login_url,
                                   form |-> login_form(cfg)])
    /\ inflight' = inflight \cup {[cycle |-> cycle, kind |-> "login"]}
    /\ totalLogins' = totalLogins + 1
    /\ pc' = "login_wait"
    /\ ForgetLoopLocals
    /\ UNCHANGED <<constVars, envVars, caller, cycle, loginResp, rebootResp,
                   outcome, exitReason, okLogins, totalReboots>>

\* login(): send() returns; status check, cookie check; back in run_once
LoginRecv(resp) ==
    /\ pc = "login_wait"
    /\ loginResp' = resp
    /\ rebootResp' = rebootResp
    /\ inflight' = inflight \ {[cycle |-> cycle, kind |-> "login"]}
    /\ okLogins' = IF login_result(resp) = Ok THEN okLogins + 1 ELSE okLogins
    /\ pc' = after_login(login_result(resp))
    /\ IF login_result(resp) = Ok
       THEN UNCHANGED <<outcome, caller, exitReason>>
       ELSE /\ outcome' = login_result(resp)
            /\ caller' = "none"
            /\ exitReason' = IF pc' = "exit_err" THEN "cycle_failed"
                                                ELSE exitReason
    /\ UNCHANGED <<constVars, envVars, loopVars, cycle, cycReqs,
                   totalLogins, totalReboots>>

\* (variant: the timestamp appended to cfg.reboot_url itself, not a clone)
RebootSend_mutatesConfig ==
    /\ pc = "reboot_send"
    /\ cfg' = [cfg EXCEPT !.reboot_url = reboot_request_url(cfg, clock)]
    /\ cycReqs' = Append(cycReqs, [kind |-> "reboot",
                                   url |-> cfg'.reboot_url,
                                   referer |-> cfg.reboot_referer])
    /\ inflight' = inflight \cup {[cycle |-> cycle, kind |-> "reboot"]}
    /\ totalReboots' = totalReboots + 1
    /\ pc' = "reboot_wait"
    /\ UNCHANGED <<cronValid, schedule, run_now, envVars, loopVars, caller,
                   cycle, loginResp, rebootResp, outcome, exitReason,
                   totalLogins, okLogins>>

\* reboot(): clone the URL, append the timestamp, send the POST
RebootSend ==
    /\ pc = "reboot_send"
    /\ cycReqs' = Append(cycReqs, [kind |-> "reboot",
                                   url |-> reboot_request_url(cfg, clock),
                                   referer |-> cfg.reboot_referer])
    /\ inflight' = inflight \cup {[cycle |-> cycle, kind |-> "reboot"]}
    /\ totalReboots' = totalReboots + 1
    /\ pc' = "reboot_wait"
    /\ UNCHANGED <<constVars, envVars, loopVars, caller, cycle, loginResp, rebootResp,
                   outcome, exitReason, totalLogins, okLogins>>

\* reboot(): send() returns; status check; run_once returns to its caller
RebootRecv(resp) ==
    /\ pc = "reboot_wait"
    /\ inflight' = inflight \ {[cycle |-> cycle, kind |-> "reboot"]}
    /\ outcome' = reboot_result(resp)
    /\ caller' = "none"
    /\ pc' = after_run_once(reboot_result(resp))
    /\ exitReason' = IF pc' = "exit_err" THEN "cycle_failed" ELSE exitReason
    /\ rebootResp' = resp
    /\ UNCHANGED <<constVars, envVars, loopVars, cycle, cycReqs, loginResp,
                   countVars>>

\* (variant: now read once before the loop instead of in every iteration)
ComputeNext_staleNow ==
    /\ pc = "loop_top"
    /\ iter' = iter + 1
    /\ now' = 0
    /\ next' = after(schedule, 0)
    /\ lastTrigger' = IF next' = None THEN lastTrigger ELSE next'
    /\ IF next' = None
       THEN /\ pc' = "exit_err"
            /\ exitReason' = "no_future"
            /\ UNCHANGED <<wait, sleepLeft>>
       ELSE /\ wait' = to_std(next' - now')
            /\ sleepLeft' = wait'
            /\ pc' = "sleep"
            /\ exitReason' = exitReason
    /\ cycReqs' = <<>>
    /\ loginResp' = NoResp
    /\ rebootResp' = NoResp
    /\ UNCHANGED <<constVars, clock, jumps, backwards, caller, cycle,
                   inflight, outcome, countVars>>

\* (variant: .next().unwrap_or(now) -- a missing next instant slept on)
ComputeNext_sleepsOnNone ==
    /\ pc = "loop_top"
    /\ iter' = iter + 1
    /\ now' = clock
    /\ next' = after(schedule, clock)
    /\ lastTrigger' = IF next' = None THEN lastTrigger ELSE next'
    /\ wait' = IF next' = None THEN 0 ELSE to_std(next' - now')
    /\ sleepLeft' = wait'
    /\ pc' = "sleep"
    /\ exitReason' = exitReason
    /\ cycReqs' = <<>>
    /\ loginResp' = NoResp
    /\ rebootResp' = NoResp
    /\ UNCHANGED <<constVars, clock, jumps, backwards, caller, cycle,
                   inflight, outcome, countVars>>

\* loop body up to thread::sleep(wait): now, next, wait
ComputeNext ==
    /\ pc = "loop_top"
    /\ iter' = iter + 1
    /\ now' = clock
    /\ next' = after(schedule, clock)
    /\ lastTrigger' = IF next' = None THEN lastTrigger ELSE next'
    /\ IF next' = None
       THEN /\ pc' = "exit_err"
            /\ exitReason' = "no_future"
            /\ UNCHANGED <<wait, sleepLeft>>
       ELSE /\ wait' = to_std(next' - now')
            /\ sleepLeft' = wait'
            /\ pc' = "sleep"
            /\ exitReason' = exitReason
    /\ cycReqs' = <<>>
    /\ loginResp' = NoResp
    /\ rebootResp' = NoResp
    /\ UNCHANGED <<constVars, clock, jumps, backwards, caller, cycle,
                   inflight, outcome, countVars>>

\* (variant: a sleep that may return before its time is up)
Wake_early ==
    /\ pc = "sleep"
    /\ StartCycle("scheduled")
    /\ UNCHANGED <<constVars, envVars, loopVars, countVars, inflight,
                   exitReason>>

\* thread::sleep returns; run_once(&client, &cfg) is called
Wake ==
    /\ pc = "sleep"
    /\ sleepLeft = 0
    /\ StartCycle("scheduled")
    /\ UNCHANGED <<constVars, envVars, loopVars, countVars, inflight,
                   exitReason>>

\* ----------------------------------------------------------- environment

\* the thread is inside one of its blocking calls: thread::sleep or
\* send().  Time passes only there; the steps between take none.
Blocked == pc \in {"sleep", "login_wait", "reboot_wait"}

\* one unit of time passes
Tick ==
    /\ Blocked
    /\ clock < MaxTime \/ (pc = "sleep" /\ sleepLeft > 0)
    /\ clock' = IF clock < MaxTime THEN clock + 1 ELSE clock
    /\ sleepLeft' = IF pc = "sleep" /\ sleepLeft > 0 THEN sleepLeft - 1
                                                     ELSE sleepLeft
    /\ UNCHANGED <<constVars, loopVars, countVars, pc, caller, jumps,
                   backwards, cycle, cycReqs, loginResp, rebootResp, inflight, outcome,
                   exitReason>>

\* the wall clock is set (NTP step, DST, manual change)
ClockJump ==
    /\ Blocked
    /\ jumps < MaxJumps
    /\ \E t \in ClockValues \ {clock} :
          /\ clock' = t
          /\ backwards' = (backwards \/ t < clock)
    /\ jumps' = jumps + 1
    /\ UNCHANGED <<constVars, loopVars, countVars, pc, caller, sleepLeft,
                   cycle, cycReqs, loginResp, rebootResp, inflight, outcome, exitReason>>

LoginAnswered  == \E resp \in Responses : LoginRecv(resp)
RebootAnswered == \E resp \in Responses : RebootRecv(resp)

Next ==
    \/ ParseCron
    \/ RunNowCheck
    \/ LoginSend
    \/ LoginAnswered
    \/ RebootSend
    \/ RebootAnswered
    \/ ComputeNext
    \/ Wake
    \/ Tick
    \/ ClockJump

Spec == Init /\ [][Next]_vars

\* the steps of the single thread; pc enables at most one of them at a time
ThreadStep ==
    \/ ParseCron
    \/ RunNowCheck
    \/ LoginSend
    \/ LoginAnswered
    \/ RebootSend
    \/ RebootAnswered
    \/ ComputeNext
    \/ Wake

\* the thread always takes its next step: an HTTP call returns (an answer,
\* or the client's timeout as a transport error) and thread::sleep returns
\* once its time is up; time passes
FairSpec ==
    /\ Spec
    /\ WF_vars(ThreadStep)
    /\ WF_vars(Tick)

TypeOK ==
    /\ pc \in {"parse", "run_now_check", "login_send", "login_wait",
               "reboot_send", "reboot_wait", "loop_top", "sleep", "exit_err"}
    /\ clock \in ClockValues
    /\ outcome.tag \in FailureKinds \cup {"none", "ok"}
    /\ loginResp \in Responses \cup {NoResp}

\* ---------------------------------------------------------------- claims

ReqKinds == [i \in 1..Len(cycReqs) |-> cycReqs[i].kind]
RebootIssued == \E i \in 1..Len(cycReqs) : cycReqs[i].kind = "reboot"
LoginAnsweredNonSuccess ==
    loginResp.transport = "ok" /\ loginResp.status \notin 200..299
LoginAnsweredSuccess ==
    loginResp.transport = "ok" /\ loginResp.status \in 200..299
NoLaterTrigger(t) == ~ \E s \in schedule : s > t

\* C1: in a cycle whose login response has a non-success HTTP status no
\* reboot request is issued; the login request is the cycle's only
\* outbound call.
C1_NoRebootAfterLoginStatusFailure ==
    LoginAnsweredNonSuccess =>
        /\ ReqKinds = <<"login">>
        /\ pc \notin {"reboot_send", "reboot_wait"}

C1_Witness ==
    /\ LoginAnsweredNonSuccess
    /\ loginResp.status = 302
    /\ pc = "loop_top"
    /\ caller = "none"
    /\ iter = 1

\* C2: a failed cycle never stops the scheduler: the step on which a
\* cycle fails (any of the four kinds) does not make run_scheduler
\* return, and from the top of the loop after a failed cycle the
\* scheduler eventually starts another cycle, unless the iteration finds
\* that the cron expression has no occurrence after now.
C2_FailedCycleContinues ==
    /\ [][(pc \in {"login_wait", "reboot_wait"} => pc' # "exit_err")]_vars
    /\ (pc = "loop_top" /\ outcome.tag \in FailureKinds)
          ~> \/ pc = "login_send"
             \/ (pc = "exit_err" /\ exitReason = "no_future"
                                 /\ NoLaterTrigger(now))

\* the first cycle's login failed and a second cycle has been started
C2_Witness ==
    /\ pc = "login_send"
    /\ caller = "scheduled"
    /\ cycle = 2
    /\ totalLogins = 1
    /\ okLogins = 0

C4_CookieAbsenceAdvisory ==
    /\ (LoginAnsweredSuccess /\ ~loginResp.cookie) =>
          (pc = "reboot_send" \/ RebootIssued)
    /\ loginResp.transport = "ok" =>
          ((pc = "reboot_send" \/ RebootIssued) <=> loginResp.status \in 200..299)

C4_Witness ==
    /\ LoginAnsweredSuccess
    /\ ~loginResp.cookie
    /\ ReqKinds = <<"login", "reboot">>
    /\ pc = "loop_top"

\* C5: the number of reboot requests issued over the run equals the
\* number of cycles whose login returned a success status (the reboot of
\* a cycle whose login has just succeeded being the next step).
C5_RebootsEqualSuccessfulLogins ==
    /\ pc # "reboot_send" => totalReboots = okLogins
    /\ pc = "reboot_send" => totalReboots + 1 = okLogins
    /\ okLogins <= totalLogins

\* the first cycle's login failed (a 403 answer is one such failure), the
\* second cycle's login succeeded: one reboot in total
C5_Witness ==
    /\ cycle = 2
    /\ totalLogins = 2
    /\ okLogins = 1
    /\ LoginAnsweredSuccess
    /\ pc = "reboot_wait"
    /\ totalReboots = 1

\* C6: every next trigger computed in the loop is strictly after the now
\* it was computed from, and is the first trigger instant after now; when
\* now is itself a trigger instant the result is the following one.
C6_NextStrictlyAfterNow ==
    (iter > 0 /\ next # None) =>
        /\ next > now
        /\ next \in schedule
        /\ ~ \E s \in schedule : now < s /\ s < next
        /\ wait > 0

C6_Witness ==
    /\ pc = "sleep"
    /\ now \in schedule
    /\ next \in schedule
    /\ next > now
    /\ ~backwards

\* C7: at most one cycle is in flight: at most one HTTP request is
\* outstanding, it belongs to the current cycle, and none is outstanding
\* while the scheduler computes a trigger, sleeps or starts a cycle.
C7_OneCycleInFlight ==
    /\ Cardinality(inflight) <= 1
    /\ \A r \in inflight : r.cycle = cycle
    /\ pc \in {"loop_top", "sleep", "login_send", "reboot_send", "exit_err"}
          => inflight = {}
    /\ pc = "login_wait"  => inflight = {[cycle |-> cycle, kind |-> "login"]}
    /\ pc = "reboot_wait" => inflight = {[cycle |-> cycle, kind |-> "reboot"]}

C7_Witness ==
    /\ inflight = {[cycle |-> 3, kind |-> "reboot"]}
    /\ iter = 2

\* C8: no retry within a cycle: a failing step leads to the top of the
\* loop without a request; from there and from the sleep no request is
\* issued until the sleep has run out; a cycle holds at most one login
\* and at most one reboot request.
C8_NoRetryWithinCycle ==
    [][ /\ (pc = "login_wait" /\ loginResp'.transport = "ok"
                              /\ loginResp'.status \in 200..299)
              => pc' = "reboot_send"
        /\ ((pc = "login_wait" /\ pc' # "login_wait" /\
              ~(loginResp'.transport = "ok" /\ loginResp'.status \in 200..299))
            \/ (pc = "reboot_wait" /\ pc' # "reboot_wait"))
              => pc' = "loop_top"
        /\ pc = "loop_top" => pc' \in {"loop_top", "sleep", "exit_err"}
        /\ (pc = "sleep" /\ pc' # "sleep") => (sleepLeft = 0 /\ cycle' = cycle + 1)
        /\ pc \in {"loop_top", "sleep", "login_wait", "reboot_wait"} =>
              (totalLogins' = totalLogins /\ totalReboots' = totalReboots)
        /\ Cardinality({i \in 1..Len(cycReqs') : cycReqs'[i].kind = "login"}) <= 1
        /\ Cardinality({i \in 1..Len(cycReqs') : cycReqs'[i].kind = "reboot"}) <= 1
      ]_vars

C8_Witness ==
    /\ outcome.tag = "login_transport"
    /\ pc = "sleep"
    /\ sleepLeft > 0
    /\ cycle = 2
    /\ totalLogins = 2

\* C9: when the cron expression has no occurrence after now the
\* scheduler terminates with an error: the iteration that finds none
\* ends in the error exit, nothing is slept, and nothing happens after.
C9_NoFutureIsFatal ==
    /\ [](/\ exitReason = "no_future" =>
                (pc = "exit_err" /\ NoLaterTrigger(now) /\ next = None)
          /\ pc = "sleep" => (~NoLaterTrigger(now) /\ next # None))
    /\ [][((iter' = iter + 1 /\ NoLaterTrigger(clock)) =>
              (/\ pc' = "exit_err" /\ exitReason' = "no_future"
               /\ sleepLeft' = sleepLeft /\ wait' = wait
               /\ cycle' = cycle /\ countVars' = countVars))]_vars
    /\ [][(pc # "exit_err")]_vars

C9_Witness ==
    /\ pc = "exit_err"
    /\ exitReason = "no_future"
    /\ cycle > 0
    /\ schedule # {}

\* C10: with the run-immediately flag exactly one cycle is run before the
\* first trigger computation, and its failure does not keep the loop
\* from being entered; without the flag no login or reboot request is
\* issued before the first sleep has ended.
C10_ImmediateRun ==
    /\ (run_now /\ iter = 0) =>
          /\ cycle <= 1
          /\ pc \in {"parse", "run_now_check", "login_send", "login_wait",
                     "reboot_send", "reboot_wait", "loop_top"}
                \/ (pc = "exit_err" /\ exitReason = "invalid_cron")
          /\ pc = "loop_top" => (cycle = 1 /\ totalLogins = 1)
          /\ cycle = 1 => caller \in {"immediate", "none"}
    /\ (run_now /\ iter = 1 /\ pc = "sleep") => (cycle = 1 /\ totalLogins = 1)
    /\ (~run_now /\ (iter = 0 \/ (iter = 1 /\ pc \in {"sleep", "exit_err"}))) =>
          (cycle = 0 /\ totalLogins = 0 /\ totalReboots = 0 /\ inflight = {})
    /\ caller = "immediate" => (run_now /\ iter = 0 /\ cycle = 1)

\* the immediate cycle failed and the loop was entered all the same
C10_Witness ==
    /\ run_now
    /\ iter = 1
    /\ pc = "sleep"
    /\ cycle = 1
    /\ outcome.tag = "login_status"

\* the immediate run has been made / an iteration has computed its trigger
\* and not yet run its cycle
ImmediateRuns == IF run_now /\ cronValid /\ pc \notin {"parse", "run_now_check"}
                 THEN 1 ELSE 0
PendingIterations == IF pc = "sleep" \/ exitReason = "no_future" THEN 1 ELSE 0

\* C11: no catch-up: every iteration computes its trigger from the wall
\* clock read at that moment, as the first trigger instant strictly after
\* it, so instants overrun by a cycle or a late wake-up are skipped; each
\* wake-up runs exactly one cycle, so the cycles run are the immediate run
\* plus one per completed iteration.
C11_NoCatchUp ==
    /\ [](cycle = iter + ImmediateRuns - PendingIterations)
    /\ [][((iter' = iter + 1 /\ next' # None) =>
              (/\ now' = clock
               /\ next' \in schedule
               /\ next' > clock
               /\ ~ \E s \in schedule : clock < s /\ s < next'
               /\ sleepLeft' = next' - clock
               /\ cycle' = cycle /\ countVars' = countVars))]_vars
    /\ [][((pc = "sleep" /\ pc' # "sleep") =>
              (pc' = "login_send" /\ cycle' = cycle + 1))]_vars
    /\ [][(cycle' \in {cycle, cycle + 1} /\ iter' \in {iter, iter + 1})]_vars

\* the immediate cycle ran over the trigger instant 1; the loop then waits
\* for instant 2 and instant 1 is never made up for
C11_Witness ==
    /\ run_now
    /\ pc = "sleep"
    /\ 1 \in schedule
    /\ now = 1
    /\ next = 2
    /\ cycle = 1
    /\ jumps = 0

\* ------------------------------------------- the duration computation alone

\* let wait_delta = next - now; let wait = to_std(wait_delta); for any pair
\* of instants, the ones the loop cannot produce (next before now) included
ToStdInit ==
    /\ cfg \in Configs /\ cfg.add_timestamp
    /\ cronValid = TRUE /\ schedule = {} /\ run_now = FALSE
    /\ pc = "to_std"
    /\ caller = "none"
    /\ clock = 0 /\ jumps = 0 /\ backwards = FALSE
    /\ now \in 0..MaxInstant
    /\ next \in 0..MaxInstant
    /\ wait = 0 /\ sleepLeft = 0
    /\ iter = 0 /\ cycle = 0 /\ lastTrigger = None
    /\ cycReqs = <<>> /\ loginResp = NoResp /\ rebootResp = NoResp
    /\ inflight = {}
    /\ outcome = NoOutcome
    /\ exitReason = "none"
    /\ totalLogins = 0 /\ okLogins = 0 /\ totalReboots = 0

ToStdApply ==
    /\ pc = "to_std"
    /\ wait' = to_std(next - now)
    /\ sleepLeft' = wait'
    /\ pc' = "to_std_done"
    /\ UNCHANGED <<constVars, clock, jumps, backwards, now, next, iter,
                   lastTrigger, caller, cycle, cycReqs, loginResp, rebootResp,
                   inflight, outcome, exitReason, countVars>>

ToStdNext == ToStdApply

ToStdSpec == ToStdInit /\ [][ToStdNext]_vars

\* C12: the duration slept is never negative: it is next - now when that
\* is not negative and zero when it is; the computation always yields a
\* duration.
C12_WaitNeverNegative ==
    pc = "to_std_done" =>
        /\ wait >= 0
        /\ sleepLeft = wait
        /\ next - now >= 0 => wait = next - now
        /\ next - now < 0 => wait = 0

C12_Witness ==
    /\ pc = "to_std_done"
    /\ next < now
    /\ wait = 0

RebootAnsweredSuccess ==
    rebootResp.transport = "ok" /\ rebootResp.status \in 200..299

\* C13: when a cycle has returned, its result is fixed by the transport
\* results and statuses of its requests alone: success exactly when login
\* and reboot were both answered with a success status; a login transport
\* error or non-success status gives the login failure (and no reboot
\* request), a reboot transport error or non-success status the reboot
\* failure; cookies play no part.
C13_OutcomeByTransportAndStatus ==
    (pc = "loop_top" /\ loginResp # NoResp) =>
        /\ outcome.tag = "ok" <=> (LoginAnsweredSuccess /\ RebootAnsweredSuccess)
        /\ loginResp.transport = "err" =>
              (outcome = [tag |-> "login_transport", status |-> 0]
                 /\ rebootResp = NoResp)
        /\ LoginAnsweredNonSuccess =>
              (outcome = [tag |-> "login_status", status |-> loginResp.status]
                 /\ rebootResp = NoResp)
        /\ LoginAnsweredSuccess => rebootResp # NoResp
        /\ (LoginAnsweredSuccess /\ rebootResp.transport = "err") =>
              outcome = [tag |-> "reboot_transport", status |-> 0]
        /\ (LoginAnsweredSuccess /\ rebootResp.transport = "ok"
                                 /\ rebootResp.status \notin 200..299) =>
              outcome = [tag |-> "reboot_status", status |-> rebootResp.status]

C13_Witness ==
    /\ pc = "loop_top"
    /\ loginResp.status = 200
    /\ ~loginResp.cookie
    /\ rebootResp.transport = "ok"
    /\ rebootResp.status = 302
    /\ rebootResp.cookie
    /\ outcome.tag = "reboot_status"

LastReq(reqs) == reqs[Len(reqs)]

\* C14: with add_timestamp the URL of every reboot request is the
\* configured reboot URL plus one timeStamp parameter whose value is the
\* clock reading at the time of the request, counted from the epoch and
\* zero when the clock is before it; without add_timestamp the URL is the
\* configured reboot URL itself.
C14_RebootTimestamp ==
    [][((pc = "reboot_send" /\ pc' = "reboot_wait") =>
          (/\ Len(cycReqs') = Len(cycReqs) + 1
           /\ LastReq(cycReqs').kind = "reboot"
           /\ IF cfg.add_timestamp
              THEN /\ LastReq(cycReqs').url.path = cfg.reboot_url.path
                   /\ LastReq(cycReqs').url.query =
                        Append(cfg.reboot_url.query,
                               <<"timeStamp", IF clock >= 0 THEN clock ELSE 0>>)
                   /\ LastReq(cycReqs').url.query[1][2] >= 0
              ELSE LastReq(cycReqs').url = cfg.reboot_url))]_vars

\* a reboot request sent while the clock stood before the epoch
C14_Witness ==
    /\ pc = "reboot_wait"
    /\ cfg.add_timestamp
    /\ clock < 0
    /\ jumps = 1
    /\ Len(cycReqs) = 2
    /\ cycReqs[2].url.query = << <<"timeStamp", 0>> >>

\* C15: an invalid cron expression ends run_scheduler with an error before
\* anything else happens: no cycle, no request, no loop iteration, whether
\* or not the run-immediately flag is set.
C15_InvalidCronIsFatal ==
    /\ [](~cronValid =>
            /\ pc \in {"parse", "exit_err"}
            /\ pc = "exit_err" => exitReason = "invalid_cron"
            /\ cycle = 0 /\ iter = 0
            /\ totalLogins = 0 /\ totalReboots = 0
            /\ cycReqs = <<>> /\ inflight = {})
    /\ [](exitReason = "invalid_cron" => ~cronValid)
    /\ [][((pc = "parse" /\ ~cronValid) => pc' \in {"parse", "exit_err"})]_vars

C15_Witness ==
    /\ ~cronValid
    /\ run_now
    /\ pc = "exit_err"
    /\ exitReason = "invalid_cron"
    /\ schedule # {}

\* C16: run_scheduler never returns Ok, and once the cron expression has
\* parsed it returns only from the top of the loop, with the error of an
\* iteration that found no trigger after now; no result of a cycle,
\* success or failure, makes it return.
C16_NeverReturnsOk ==
    /\ [](/\ pc # "exit_ok"
          /\ pc = "exit_err" => exitReason \in {"invalid_cron", "no_future"}
          /\ (cronValid /\ pc = "exit_err") =>
                (exitReason = "no_future" /\ NoLaterTrigger(now) /\ next = None)
          /\ exitReason = "none" <=> pc # "exit_err")
    /\ [][((pc # "exit_err" /\ pc' = "exit_err") =>
              pc \in {"parse", "loop_top"})]_vars
    /\ [][((pc \in {"login_wait", "reboot_wait"} /\ pc' # pc) =>
              pc' \in {"reboot_send", "loop_top"})]_vars

\* a failed and a successful cycle have both run; the return came later,
\* from an iteration that found no trigger
C16_Witness ==
    /\ cronValid
    /\ pc = "exit_err"
    /\ exitReason = "no_future"
    /\ cycle >= 2
    /\ okLogins >= 1
    /\ totalLogins > okLogins

\* C17: as long as the wall clock has not moved backwards, a scheduled
\* cycle starts at or after the trigger instant computed for it, and each
\* iteration computes a trigger instant later than the one before, so no
\* instant is computed by two iterations.
C17_OneCyclePerTrigger ==
    /\ []((pc = "login_send" /\ caller = "scheduled" /\ ~backwards) =>
             (next # None /\ next = lastTrigger /\ clock >= next))
    /\ [][((pc = "sleep" /\ pc' # "sleep" /\ ~backwards) =>
              (sleepLeft = 0 /\ clock >= next))]_vars
    /\ [][((iter' = iter + 1 /\ next' # None /\ lastTrigger # None
                             /\ ~backwards) =>
              (next' > lastTrigger /\ lastTrigger' = next'))]_vars

\* the second iteration's cycle starts at its trigger instant 2, the first
\* iteration having computed an earlier one
C17_Witness ==
    /\ ~run_now
    /\ ~backwards
    /\ pc = "login_send"
    /\ caller = "scheduled"
    /\ iter = 2
    /\ cycle = 2
    /\ next = 2
    /\ clock = 2

TimestampParams(url) ==
    Cardinality({i \in 1..Len(url.query) : url.query[i][1] = "timeStamp"})

\* C18: no step changes the Config: URLs, referer, credentials and tokens
\* keep their startup values through any number of cycles; every login
\* request is built from them, and the reboot request of every cycle,
\* first or later, carries exactly one timeStamp parameter when
\* add_timestamp is set and none when it is not.
C18_ConfigUnchanged ==
    /\ [][(cfg' = cfg)]_vars
    /\ [](/\ cfg \in Configs
          /\ \A i \in 1..Len(cycReqs) :
               /\ cycReqs[i].kind = "reboot" =>
                    /\ TimestampParams(cycReqs[i].url)
                          = (IF cfg.add_timestamp THEN 1 ELSE 0)
                    /\ Len(cycReqs[i].url.query)
                          = (IF cfg.add_timestamp THEN 1 ELSE 0)
                    /\ cycReqs[i].url.path = "reboot"
                    /\ cycReqs[i].referer = Url("referer")
               /\ cycReqs[i].kind = "login" =>
                    /\ cycReqs[i].url = Url("login")
                    /\ cycReqs[i].referer = Url("login")
                    /\ cycReqs[i].form.user_name = "useradmin"
                    /\ cycReqs[i].form.Password = "secret"
                    /\ cycReqs[i].form.Frm_Logintoken = "5"
                    /\ cycReqs[i].form.frashnum = "")

\* the reboot request of the third cycle, after two reboots already sent
C18_Witness ==
    /\ cfg.add_timestamp
    /\ cycle = 3
    /\ totalReboots = 3
    /\ pc = "reboot_wait"
    /\ TimestampParams(cycReqs[2].url) = 1
====
